---- MODULE Spec2Model ----
(***************************************************************************)
(* ArcWelder shape accumulators: segmented_arc and segmented_spline.        *)
(*                                                                         *)
(* Numbers.  Every double of the source is a fixed-point integer counting  *)
(* units of 1/Scale millimetre (Scale = 100, two fractional digits), so    *)
(* 1.00 mm is 100.  Precisions are numbers of decimals, as in the source.  *)
(*                                                                         *)
(* Strings.  A std::string is a sequence of one-character strings, so Len  *)
(* is std::string::length().                                               *)
(*                                                                         *)
(* Code outside src/.  The base class segmented_shape (try_add_point, the  *)
(* accessors, the tolerance), the solvers arc::try_create_arc and          *)
(* spline::try_create_spline and the helpers of utilities:: are part of    *)
(* the repository but not of src/; they are modelled from the design       *)
(* document and from the way src/ uses them.                               *)
(***************************************************************************)
EXTENDS Integers, Sequences, FiniteSets, TLC

VARIABLES
  shape,                          \* "arc" | "spline": the class of the accumulator
  ctor,                           \* "default" | "param": the constructor that built it
  requested_max_radius_mm,        \* the max_radius_mm argument of the constructor
  allow_3d_shapes_,
  min_segments_,
  max_segments_,
  mm_per_segment_,
  max_gcode_length_,
  xyz_precision_,
  e_precision_,
  max_radius_mm_,
  e_relative_,
  points_,
  original_shape_length_,
  current_arc_,
  current_spline_,
  is_shape_,
  num_gcode_length_exceptions_,
  num_firmware_compensations_,
  last,                           \* what the last call did (its argument, path, result)
  gcode,                          \* last value returned by get_gcode()
  gcode_length                    \* last value returned by get_gcode_length()

vars == <<shape, ctor, requested_max_radius_mm, allow_3d_shapes_, min_segments_,
          max_segments_, mm_per_segment_, max_gcode_length_, xyz_precision_,
          e_precision_, max_radius_mm_, e_relative_, points_,
          original_shape_length_, current_arc_, current_spline_, is_shape_,
          num_gcode_length_exceptions_, num_firmware_compensations_, last,
          gcode, gcode_length>>

config_vars == <<shape, ctor, requested_max_radius_mm, allow_3d_shapes_,
                 min_segments_, max_segments_, mm_per_segment_, max_gcode_length_,
                 xyz_precision_, e_precision_, max_radius_mm_, e_relative_>>

-----------------------------------------------------------------------------
(* Bounds of the model *)

\* the largest max_segments a constructor is given
MaxSegments == 3

\* calls are explored while both rejection counters are below this
MaxExceptions == 1

-----------------------------------------------------------------------------
(* Fixed-point arithmetic *)

RECURSIVE Pow10(_)
Pow10(n) == IF n = 0 THEN 1 ELSE 10 * Pow10(n - 1)

Scale == Pow10(2)

Abs(x) == IF x < 0 THEN -x ELSE x

\* |x| rounded (half up) to `precision` decimals, as an integer count of 10^-precision
RoundedMagnitude(x, precision) ==
  (2 * Abs(x) * Pow10(precision) + Scale) \div (2 * Scale)

\* utilities::is_zero(x, tolerance)
is_zero(x, tolerance) == Abs(x) < tolerance

\* utilities::is_equal(x, y, tolerance)
is_equal(x, y, tolerance) == Abs(x - y) < tolerance

\* utilities::greater_than_or_equal(x, y)
greater_than_or_equal(x, y) == x >= y

\* utilities::floor of the quotient of two positive fixed-point numbers
floor_div(a, b) == a \div b

\* 2.0 * PI_DOUBLE * radius, with PI_DOUBLE as 355/113
circumference_of(radius) == (2 * 355 * radius) \div 113

\* utilities::get_num_digits(int): the number of decimal digits of a non-negative integer
RECURSIVE get_num_digits_int(_)
get_num_digits_int(n) == IF n < 10 THEN 1 ELSE 1 + get_num_digits_int(n \div 10)

\* utilities::get_num_digits(double, precision): the digits left of the decimal
\* point of x once rounded to `precision` decimals
get_num_digits(x, precision) ==
  get_num_digits_int(RoundedMagnitude(x, precision) \div Pow10(precision))

-----------------------------------------------------------------------------
(* utilities::dtos: fixed notation with `precision` decimals *)

DigitChar(d) == <<"0", "1", "2", "3", "4", "5", "6", "7", "8", "9">>[d + 1]

RECURSIVE IntDigits(_)
IntDigits(n) ==
  IF n < 10 THEN <<DigitChar(n)>> ELSE IntDigits(n \div 10) \o <<DigitChar(n % 10)>>

RECURSIVE FracDigits(_, _)
FracDigits(n, width) ==
  IF width = 0 THEN <<>> ELSE FracDigits(n \div 10, width - 1) \o <<DigitChar(n % 10)>>

\* sign of the value, integer digits, and (only when precision > 0) a decimal
\* point followed by exactly `precision` decimals: dtos(f, 0) is "1800", not "1800."
dtos(x, precision) ==
  LET m == RoundedMagnitude(x, precision)
      whole == m \div Pow10(precision)
      frac == m % Pow10(precision)
  IN  (IF x < 0 THEN <<"-">> ELSE <<>>)
      \o IntDigits(whole)
      \o (IF precision > 0 THEN <<".">> \o FracDigits(frac, precision) ELSE <<>>)

-----------------------------------------------------------------------------
(* Data: printer_point, arc, spline *)

NullPoint ==
  [x |-> 0, y |-> 0, z |-> 0, e_offset |-> 0, is_extruder_relative |-> FALSE,
   f |-> 0, distance |-> 0]

\* a default-constructed arc
DefaultArc ==
  [start_point |-> NullPoint, end_point |-> NullPoint, i |-> 0, j |-> 0,
   radius |-> 0, length |-> 0, angle_radians |-> 0]

\* a default-constructed spline
DefaultSpline ==
  [start_point |-> NullPoint, end_point |-> NullPoint, length |-> 0]

\* segmented_shape::get_xyz_tolerance(): 10^-xyz_precision
get_xyz_tolerance == Scale \div Pow10(xyz_precision_)

\* segmented_shape::get_xyz_precision()
get_xyz_precision == xyz_precision_

\* segmented_shape::get_e_precision()
get_e_precision == e_precision_

\* segmented_shape::get_min_segments()
get_min_segments == min_segments_

\* segmented_shape::is_shape()
is_shape == is_shape_

\* arc::get_i(), arc::get_j(): the center offset relative to the start point
get_i(a) == a.i

get_j(a) == a.j

Bit(b) == IF b THEN 1 ELSE 0

-----------------------------------------------------------------------------
(* segmented_arc: the command emitter *)

arc_e(a) == IF a.end_point.is_extruder_relative THEN e_relative_ ELSE a.end_point.e_offset

arc_f(a) == IF a.start_point.f = a.end_point.f THEN 0 ELSE a.end_point.f

arc_has_e(a) == e_relative_ # 0

arc_has_f(a) == greater_than_or_equal(arc_f(a), 1 * Scale)

\* mutant: the z term does not depend on 3-axis arcs being allowed
arc_has_z_any_shape(a) == ~is_equal(a.start_point.z, a.end_point.z, get_xyz_tolerance)

arc_has_z(a) ==
  allow_3d_shapes_ /\ ~is_equal(a.start_point.z, a.end_point.z, get_xyz_tolerance)

\* mutant: a zero sweep angle is taken for a clockwise arc
arc_keyword_zero_clockwise(a) == IF a.angle_radians <= 0 THEN <<"G", "2">> ELSE <<"G", "3">>

\* the command keyword of segmented_arc::get_gcode(): G2 for a negative sweep angle
arc_keyword(a) == IF a.angle_radians < 0 THEN <<"G", "2">> ELSE <<"G", "3">>

\* segmented_arc::get_gcode() on arc a
arc_get_gcode(a) ==
  arc_keyword(a)
  \o <<" ", "X">> \o dtos(a.end_point.x, get_xyz_precision)
  \o <<" ", "Y">> \o dtos(a.end_point.y, get_xyz_precision)
  \o (IF arc_has_z(a) THEN <<" ", "Z">> \o dtos(a.end_point.z, get_xyz_precision) ELSE <<>>)
  \o <<" ", "I">> \o dtos(get_i(a), get_xyz_precision)
  \o <<" ", "J">> \o dtos(get_j(a), get_xyz_precision)
  \o (IF arc_has_e(a) THEN <<" ", "E">> \o dtos(arc_e(a), get_e_precision) ELSE <<>>)
  \o (IF arc_has_f(a) THEN <<" ", "F">> \o dtos(arc_f(a), 0) ELSE <<>>)

\* segmented_arc::get_gcode_length() on arc a
arc_get_gcode_length(a) ==
  LET e == arc_e(a)
      f == arc_f(a)
      has_e == arc_has_e(a)
      has_f == arc_has_f(a)
      has_z == arc_has_z(a)
      xyz_precision == get_xyz_precision
      e_precision == get_e_precision
      i == get_i(a)
      j == get_j(a)
      num_spaces == 4 + Bit(has_z) + Bit(has_e) + Bit(has_f)
      num_decimal_points == 4 + Bit(has_z) + Bit(has_e)
      num_decimals == xyz_precision * (4 + Bit(has_z)) + e_precision * Bit(has_e)
      num_digits ==
          get_num_digits(a.end_point.x, xyz_precision)
        + get_num_digits(a.end_point.y, xyz_precision)
        + (IF has_z THEN get_num_digits(a.end_point.z, xyz_precision) ELSE 0)
        + (IF has_e THEN get_num_digits(e, e_precision) ELSE 0)
        + get_num_digits(i, xyz_precision)
        + get_num_digits(j, xyz_precision)
        + (IF has_f THEN get_num_digits(f, 0) ELSE 0)
      num_minus_signs ==
          Bit(a.end_point.x < 0)
        + Bit(a.end_point.y < 0)
        + Bit(i < 0)
        + Bit(j < 0)
        + Bit(has_e /\ e < 0)
        + Bit(has_z /\ a.end_point.z < 0)
      num_parameters == 4 + Bit(has_e) + Bit(has_z) + Bit(has_f)
  IN  2 + num_spaces + num_decimal_points + num_digits + num_minus_signs
        + num_decimals + num_parameters

-----------------------------------------------------------------------------
(* segmented_spline: the command emitter *)

spline_e(s) == IF s.end_point.is_extruder_relative THEN e_relative_ ELSE s.end_point.e_offset

spline_f(s) == IF s.start_point.f = s.end_point.f THEN 0 ELSE s.end_point.f

spline_has_e(s) == e_relative_ # 0

spline_has_f(s) == greater_than_or_equal(spline_f(s), 1 * Scale)

\* allow_3d_shapes_ is not consulted by the spline emitter
spline_has_z(s) == ~is_equal(s.start_point.z, s.end_point.z, get_xyz_tolerance)

\* segmented_spline::get_gcode() on spline s
spline_get_gcode(s) ==
  <<"G", "5">>
  \o <<" ", "X">> \o dtos(s.end_point.x, get_xyz_precision)
  \o <<" ", "Y">> \o dtos(s.end_point.y, get_xyz_precision)
  \o (IF spline_has_z(s) THEN <<" ", "Z">> \o dtos(s.end_point.z, get_xyz_precision) ELSE <<>>)
  \o (IF spline_has_e(s) THEN <<" ", "E">> \o dtos(spline_e(s), get_e_precision) ELSE <<>>)
  \o (IF spline_has_f(s) THEN <<" ", "F">> \o dtos(spline_f(s), 0) ELSE <<>>)

\* segmented_spline::get_gcode_length() on spline s
spline_get_gcode_length(s) ==
  LET e == spline_e(s)
      f == spline_f(s)
      has_e == spline_has_e(s)
      has_f == spline_has_f(s)
      has_z == spline_has_z(s)
      xyz_precision == get_xyz_precision
      e_precision == get_e_precision
      i == 0
      j == 0
      p == 0
      q == 0
      num_spaces == 4 + Bit(has_z) + Bit(has_e) + Bit(has_f)
      num_decimal_points == 4 + Bit(has_z) + Bit(has_e)
      num_decimals == xyz_precision * (4 + Bit(has_z)) + e_precision * Bit(has_e)
      num_digits ==
          get_num_digits(s.end_point.x, xyz_precision)
        + get_num_digits(s.end_point.y, xyz_precision)
        + (IF has_z THEN get_num_digits(s.end_point.z, xyz_precision) ELSE 0)
        + (IF has_e THEN get_num_digits(e, e_precision) ELSE 0)
        + get_num_digits(i, xyz_precision)
        + get_num_digits(j, xyz_precision)
        + get_num_digits(p, xyz_precision)
        + get_num_digits(q, xyz_precision)
        + (IF has_f THEN get_num_digits(f, 0) ELSE 0)
      num_minus_signs ==
          Bit(s.end_point.x < 0)
        + Bit(s.end_point.y < 0)
        + Bit(i < 0)
        + Bit(j < 0)
        + Bit(p < 0)
        + Bit(q < 0)
        + Bit(has_e /\ e < 0)
        + Bit(has_z /\ s.end_point.z < 0)
      num_parameters == 6 + Bit(has_e) + Bit(has_z) + Bit(has_f)
  IN  2 + num_spaces + num_decimal_points + num_digits + num_minus_signs
        + num_decimals + num_parameters

-----------------------------------------------------------------------------
(* Inputs: the points offered and the fits a solver can compute *)

\* candidate points (x, y, z, e_offset, f and distance in 1/Scale units)
Points ==
  { [x |-> 100, y |-> 0, z |-> 0, e_offset |-> 0, is_extruder_relative |-> TRUE,
     f |-> 180000, distance |-> 50],
    [x |-> -1234, y |-> 996, z |-> 20, e_offset |-> -50, is_extruder_relative |-> FALSE,
     f |-> 240000, distance |-> 200] }

\* circles a fit can come out with: center offset, radius, winding
Circles ==
  { [i |-> 500, j |-> 0, radius |-> 500, angle_radians |-> 157],
    [i |-> 0, j |-> -50, radius |-> 50, angle_radians |-> -157],
    [i |-> 5, j |-> -5, radius |-> 7, angle_radians |-> 0] }

\* curve lengths a fit can come out with
Lengths == {5, 300}

\* the arcs try_create_arc can write for the buffer pts: first point to last point
ArcFits(pts) ==
  { [start_point |-> pts[1], end_point |-> pts[Len(pts)], i |-> c.i, j |-> c.j,
     radius |-> c.radius, length |-> l, angle_radians |-> c.angle_radians]
    : c \in Circles, l \in Lengths }

\* the splines try_create_spline can write for the buffer pts
SplineFits(pts) ==
  { [start_point |-> pts[1], end_point |-> pts[Len(pts)], length |-> l] : l \in Lengths }

\* all buffered points share one z within tolerance
SameZ(pts, xyz_tolerance) ==
  \A a \in 1..Len(pts) : is_equal(pts[a].z, pts[1].z, xyz_tolerance)

\* arc::try_create_arc(points, target_arc, ...): the outcomes of one call, each the
\* returned flag and the value target_arc holds afterwards.  It succeeds only with a
\* radius within max_radius_mm and, unless 3-axis arcs are allowed, with all points
\* on one z; target_arc is passed by reference, so a call that fails after its late
\* checks may have populated it already.
arc_try_create_arc(pts, target_arc, max_radius_mm, xyz_tolerance, allow_3d_shapes) ==
  { [ok |-> TRUE, target |-> a] :
      a \in { b \in ArcFits(pts) :
                /\ b.radius > 0
                /\ b.radius <= max_radius_mm
                /\ allow_3d_shapes \/ SameZ(pts, xyz_tolerance) } }
  \cup { [ok |-> FALSE, target |-> a] : a \in ArcFits(pts) \cup {target_arc} }

\* spline::try_create_spline(&points, &target_spline, ...): as above, without a
\* radius bound
spline_try_create_spline(pts, target_spline) ==
  { [ok |-> TRUE, target |-> a] : a \in SplineFits(pts) }
  \cup { [ok |-> FALSE, target |-> a] : a \in SplineFits(pts) \cup {target_spline} }

\* array_list::pop_back
pop_back(pts) == SubSeq(pts, 1, Len(pts) - 1)

-----------------------------------------------------------------------------
(* segmented_arc *)

\* the constructors' max_radius_mm_: the system ceiling
DEFAULT_MAX_RADIUS_MM == 999900

\* segmented_arc::segmented_arc(): max_radius_mm_ of the default constructor
segmented_arc_default_max_radius == DEFAULT_MAX_RADIUS_MM

\* mutant: the requested radius is stored without the clamp
segmented_arc_max_radius_unclamped(max_radius_mm) == max_radius_mm

\* segmented_arc::segmented_arc(..., max_radius_mm): max_radius_mm_ after the clamp
segmented_arc_max_radius(max_radius_mm) ==
  IF max_radius_mm > DEFAULT_MAX_RADIUS_MM THEN DEFAULT_MAX_RADIUS_MM ELSE max_radius_mm

\* segmented_arc::get_max_radius()
get_max_radius == max_radius_mm_

\* segmented_arc::get_length()
arc_get_length == current_arc_.length

\* mutant: the filter is applied even when no maximum length is configured
arc_gcode_length_exceeded_unguarded(a) == arc_get_gcode_length(a) > max_gcode_length_

\* the emitted-length filter of segmented_arc::try_add_point_internal_
arc_gcode_length_exceeded(a) ==
  max_gcode_length_ > 0 /\ arc_get_gcode_length(a) > max_gcode_length_

\* mutant: the arc is aborted on the first quotient alone, without the retry
arc_firmware_compensation_no_retry(a, original_shape_length) ==
  IF min_segments_ > 0 /\ mm_per_segment_ > 0
  THEN floor_div(circumference_of(a.radius), min_segments_ * Scale) < min_segments_
  ELSE FALSE

\* the firmware compensation of segmented_arc::try_add_point_internal_ on arc a with
\* the running original_shape_length_: TRUE when the arc is to be aborted
arc_firmware_compensation(a, original_shape_length) ==
  IF min_segments_ > 0 /\ mm_per_segment_ > 0
  THEN LET circumference == circumference_of(a.radius)
           num_segments == floor_div(circumference, min_segments_ * Scale)
       IN  IF num_segments < min_segments_
           THEN floor_div(circumference, original_shape_length) < min_segments_
           ELSE FALSE
  ELSE FALSE

\* the last filter of segmented_arc::try_add_point_internal_: I and J both zero, or
\* a length below the tolerance
arc_is_degenerate(a) ==
  IF is_zero(get_i(a), get_xyz_tolerance) /\ is_zero(get_j(a), get_xyz_tolerance)
  THEN TRUE
  ELSE a.length < get_xyz_tolerance

\* mutant: the running length is not advanced by the pushed point
arc_pushed_length_unchanged(p) == original_shape_length_

\* original_shape_length_ += p.distance
arc_pushed_length(p) == original_shape_length_ + p.distance

\* mutant: the firmware compensation is skipped for an arc the length filter aborted
arc_firmware_step_unless_aborted(abort_arc, a, original_shape_length) ==
  ~abort_arc /\ arc_firmware_compensation(a, original_shape_length)

\* the firmware compensation block as it stands after the length filter: a plain
\* `if`, entered whether or not abort_arc is already set
arc_firmware_step(abort_arc, a, original_shape_length) ==
  arc_firmware_compensation(a, original_shape_length)

\* mutant: the counter is advanced for every candidate the solver accepts
arc_length_exceptions_after_every_solve(too_long) == num_gcode_length_exceptions_ + 1

\* num_gcode_length_exceptions_++ inside the length filter
arc_length_exceptions_after(too_long) == num_gcode_length_exceptions_ + Bit(too_long)

\* mutant: the running length keeps the rejected point's distance
arc_restored_length_kept(previous_shape_length, new_length) == new_length

\* original_shape_length_ = previous_shape_length, for a rejected point
arc_restored_length(previous_shape_length, new_length) == previous_shape_length

\* current_arc_ = original_arc, for an aborted arc
arc_restored(original_arc, tried) == original_arc

\* mutant: the flag follows the outcome of the last fit
arc_is_shape_after_last_fit(abort_arc) == ~abort_arc

\* mutant: the flag is set before the outcome of the filters is known
arc_is_shape_after_any_fit(abort_arc) == TRUE

\* is_shape() after the filters: set_is_shape(true) unless the arc was aborted
arc_is_shape_after(abort_arc) == IF abort_arc THEN is_shape_ ELSE TRUE

\* segmented_arc::try_add_point_internal_(p), s being what try_create_arc did: the
\* returned value and the members the call leaves behind
arc_try_add_point_internal_(p, s) ==
  IF Len(points_) < get_min_segments - 1
  THEN [ret |-> FALSE, points |-> points_, length |-> original_shape_length_,
        arc |-> current_arc_, is_shape |-> is_shape_,
        length_exceptions |-> num_gcode_length_exceptions_,
        firmware_compensations |-> num_firmware_compensations_]
  ELSE
    LET pushed == Append(points_, p)
        previous_shape_length == original_shape_length_
        new_length == arc_pushed_length(p)
        original_arc == current_arc_
        tried == s.target
    IN
    IF s.ok
    THEN
      LET too_long == arc_gcode_length_exceeded(tried)
          compensated == arc_firmware_step(too_long, tried, new_length)
          abort_arc ==
            IF too_long \/ compensated THEN TRUE ELSE arc_is_degenerate(tried)
          n1 == arc_length_exceptions_after(too_long)
          n2 == num_firmware_compensations_ + Bit(compensated)
      IN
      IF abort_arc
      THEN [ret |-> FALSE, points |-> pop_back(pushed),
            length |-> arc_restored_length(previous_shape_length, new_length),
            arc |-> arc_restored(original_arc, tried),
            is_shape |-> arc_is_shape_after(abort_arc),
            length_exceptions |-> n1, firmware_compensations |-> n2]
      ELSE [ret |-> TRUE, points |-> pushed, length |-> new_length,
            arc |-> tried, is_shape |-> arc_is_shape_after(abort_arc),
            length_exceptions |-> n1, firmware_compensations |-> n2]
    ELSE [ret |-> FALSE, points |-> pop_back(pushed),
          length |-> arc_restored_length(previous_shape_length, new_length),
          arc |-> tried, is_shape |-> is_shape_,
          length_exceptions |-> num_gcode_length_exceptions_,
          firmware_compensations |-> num_firmware_compensations_]

-----------------------------------------------------------------------------
(* segmented_spline *)

\* segmented_spline::get_length()
spline_get_length == current_spline_.length

\* the emitted-length filter of segmented_spline::try_add_point_internal_
spline_gcode_length_exceeded(a) ==
  max_gcode_length_ > 0 /\ spline_get_gcode_length(a) > max_gcode_length_

\* the last filter of segmented_spline::try_add_point_internal_
spline_is_degenerate(a) == a.length < get_xyz_tolerance

\* original_shape_length_ += p.distance
spline_pushed_length(p) == original_shape_length_ + p.distance

\* current_spline_ = original_spline, for an aborted spline
spline_restored(original_spline, tried) == original_spline

\* is_shape() after the filters: set_is_shape(true) unless the spline was aborted
spline_is_shape_after(abort_spline) == IF abort_spline THEN is_shape_ ELSE TRUE

\* segmented_spline::try_add_point_internal_(p), s being what try_create_spline did
spline_try_add_point_internal_(p, s) ==
  IF Len(points_) < get_min_segments - 1
  THEN [ret |-> FALSE, points |-> points_, length |-> original_shape_length_,
        spline |-> current_spline_, is_shape |-> is_shape_,
        length_exceptions |-> num_gcode_length_exceptions_]
  ELSE
    LET pushed == Append(points_, p)
        previous_shape_length == original_shape_length_
        new_length == spline_pushed_length(p)
        original_spline == current_spline_
        tried == s.target
    IN
    IF s.ok
    THEN
      LET too_long == spline_gcode_length_exceeded(tried)
          abort_spline == IF too_long THEN TRUE ELSE spline_is_degenerate(tried)
          n1 == num_gcode_length_exceptions_ + Bit(too_long)
      IN
      IF abort_spline
      THEN [ret |-> FALSE, points |-> pop_back(pushed), length |-> previous_shape_length,
            spline |-> spline_restored(original_spline, tried),
            is_shape |-> spline_is_shape_after(abort_spline),
            length_exceptions |-> n1]
      ELSE [ret |-> TRUE, points |-> pushed, length |-> new_length,
            spline |-> tried, is_shape |-> spline_is_shape_after(abort_spline),
            length_exceptions |-> n1]
    ELSE [ret |-> FALSE, points |-> pop_back(pushed), length |-> previous_shape_length,
          spline |-> tried, is_shape |-> is_shape_,
          length_exceptions |-> num_gcode_length_exceptions_]

-----------------------------------------------------------------------------
(* Construction *)

MinSegmentsSet == {0, 2, 3}

MmPerSegmentSet == {0, 100}

MaxGcodeLengths == {0, 36}

XyzPrecisions == {1, 2}

EPrecisions == {1}

ERelatives == {-75}

RequestedRadii == {400, DEFAULT_MAX_RADIUS_MM + 100}

\* the curve model of the accumulator's class
current_curve == IF shape = "arc" THEN current_arc_ ELSE current_spline_

\* no call yet
NoCall ==
  [call |-> "none", p |-> NullPoint, ret |-> FALSE, fit |-> FALSE, solved |-> FALSE,
   target |-> IF shape = "arc" THEN DefaultArc ELSE DefaultSpline]

\* the members every constructor sets, and the empty accumulator
InitShape ==
  /\ allow_3d_shapes_ \in BOOLEAN
  /\ min_segments_ \in MinSegmentsSet
  /\ max_segments_ = MaxSegments
  /\ mm_per_segment_ \in MmPerSegmentSet
  /\ max_gcode_length_ \in MaxGcodeLengths
  /\ xyz_precision_ \in XyzPrecisions
  /\ e_precision_ \in EPrecisions
  /\ e_relative_ \in ERelatives
  /\ points_ = <<>>
  /\ original_shape_length_ = 0
  /\ current_arc_ = DefaultArc
  /\ current_spline_ = DefaultSpline
  /\ is_shape_ = FALSE
  /\ num_gcode_length_exceptions_ = 0
  /\ num_firmware_compensations_ = 0
  /\ last = NoCall
  /\ gcode = <<>>
  /\ gcode_length = 0

\* segmented_arc::segmented_arc()
InitArcDefault ==
  /\ shape = "arc"
  /\ ctor = "default"
  /\ requested_max_radius_mm = DEFAULT_MAX_RADIUS_MM
  /\ max_radius_mm_ = segmented_arc_default_max_radius
  /\ InitShape

\* segmented_arc::segmented_arc(allow_3d_shapes, ..., max_radius_mm)
InitArcParam ==
  /\ shape = "arc"
  /\ ctor = "param"
  /\ requested_max_radius_mm \in RequestedRadii
  /\ max_radius_mm_ = segmented_arc_max_radius(requested_max_radius_mm)
  /\ InitShape

\* segmented_spline::segmented_spline(...): a spline has no max_radius_mm_
InitSpline ==
  /\ shape = "spline"
  /\ ctor = "param"
  /\ requested_max_radius_mm = 0
  /\ max_radius_mm_ = 0
  /\ InitShape

Init == InitArcDefault \/ InitArcParam \/ InitSpline

-----------------------------------------------------------------------------
(* segmented_shape::try_add_point *)

\* mutant: a full buffer is detected one point late
BufferFull_off_by_one(p) ==
  /\ Len(points_) >= max_segments_
  /\ IF Len(points_) > max_segments_
     THEN /\ last' = [call |-> "try_add_point", p |-> p, ret |-> FALSE, fit |-> FALSE,
                      solved |-> FALSE, target |-> current_curve]
          /\ UNCHANGED <<points_, original_shape_length_>>
     ELSE /\ last' = [call |-> "try_add_point", p |-> p, ret |-> TRUE, fit |-> FALSE,
                      solved |-> FALSE, target |-> current_curve]
          /\ points_' = Append(points_, p)
          /\ original_shape_length_' = original_shape_length_ + p.distance
  /\ UNCHANGED <<config_vars, current_arc_, current_spline_, is_shape_,
                 num_gcode_length_exceptions_, num_firmware_compensations_,
                 gcode, gcode_length>>

\* the buffer is bounded by max_segments: a point offered to a full buffer is refused
BufferFull(p) ==
  /\ Len(points_) >= max_segments_
  /\ last' = [call |-> "try_add_point", p |-> p, ret |-> FALSE, fit |-> FALSE,
              solved |-> FALSE, target |-> current_curve]
  /\ UNCHANGED <<config_vars, points_, original_shape_length_, current_arc_,
                 current_spline_, is_shape_, num_gcode_length_exceptions_,
                 num_firmware_compensations_, gcode, gcode_length>>

\* mutant: the point is refused instead of buffered
WarmUp_refused(p) ==
  /\ Len(points_) < max_segments_
  /\ Len(points_) < get_min_segments - 1
  /\ last' = [call |-> "try_add_point", p |-> p, ret |-> FALSE, fit |-> FALSE,
              solved |-> FALSE, target |-> current_curve]
  /\ UNCHANGED <<config_vars, points_, original_shape_length_, current_arc_,
                 current_spline_, is_shape_, num_gcode_length_exceptions_,
                 num_firmware_compensations_, gcode, gcode_length>>

\* fewer than min_segments - 1 points buffered: the point is buffered, nothing is fitted
WarmUp(p) ==
  /\ Len(points_) < max_segments_
  /\ Len(points_) < get_min_segments - 1
  /\ points_' = Append(points_, p)
  /\ original_shape_length_' = original_shape_length_ + p.distance
  /\ last' = [call |-> "try_add_point", p |-> p, ret |-> TRUE, fit |-> FALSE,
              solved |-> FALSE, target |-> current_curve]
  /\ UNCHANGED <<config_vars, current_arc_, current_spline_, is_shape_,
                 num_gcode_length_exceptions_, num_firmware_compensations_,
                 gcode, gcode_length>>

\* otherwise the class's try_add_point_internal_ decides: segmented_arc
FitArc(p) ==
  /\ shape = "arc"
  /\ Len(points_) < max_segments_
  /\ ~(Len(points_) < get_min_segments - 1)
  /\ num_gcode_length_exceptions_ < MaxExceptions
  /\ num_firmware_compensations_ < MaxExceptions
  /\ \E s \in arc_try_create_arc(Append(points_, p), current_arc_, max_radius_mm_,
                                 get_xyz_tolerance, allow_3d_shapes_) :
       \E r \in {arc_try_add_point_internal_(p, s)} :
           /\ points_' = r.points
           /\ original_shape_length_' = r.length
           /\ current_arc_' = r.arc
           /\ is_shape_' = r.is_shape
           /\ num_gcode_length_exceptions_' = r.length_exceptions
           /\ num_firmware_compensations_' = r.firmware_compensations
           /\ last' = [call |-> "try_add_point", p |-> p, ret |-> r.ret, fit |-> TRUE,
                       solved |-> s.ok, target |-> s.target]
  /\ UNCHANGED <<config_vars, current_spline_, gcode, gcode_length>>

\* otherwise the class's try_add_point_internal_ decides: segmented_spline
FitSpline(p) ==
  /\ shape = "spline"
  /\ Len(points_) < max_segments_
  /\ ~(Len(points_) < get_min_segments - 1)
  /\ num_gcode_length_exceptions_ < MaxExceptions
  /\ \E s \in spline_try_create_spline(Append(points_, p), current_spline_) :
       \E r \in {spline_try_add_point_internal_(p, s)} :
           /\ points_' = r.points
           /\ original_shape_length_' = r.length
           /\ current_spline_' = r.spline
           /\ is_shape_' = r.is_shape
           /\ num_gcode_length_exceptions_' = r.length_exceptions
           /\ last' = [call |-> "try_add_point", p |-> p, ret |-> r.ret, fit |-> TRUE,
                       solved |-> s.ok, target |-> s.target]
  /\ UNCHANGED <<config_vars, current_arc_, num_firmware_compensations_, gcode,
                 gcode_length>>

try_add_point(p) == BufferFull(p) \/ WarmUp(p) \/ FitArc(p) \/ FitSpline(p)

Next == \E p \in Points : try_add_point(p)

Spec == Init /\ [][Next]_vars

-----------------------------------------------------------------------------
(* The command emitter on its own: get_gcode() and get_gcode_length() applied to
   shape states drawn from bounded sets *)

FmtXs == {-1234, 0, 996}

FmtYs == {-996, 0}

FmtZs == {-20, 0, 10, 150}

FmtIs == {-1234, 0, 5}

FmtJs == {0, 996}

FmtEOffsets == {0, 120}

FmtFs == {99, 99950, 180000}

FmtAngles == {-157, 0, 157}

FmtPrecisions == {0, 1, 2}

FmtEPrecisions == {0, 2}

FmtERelatives == {-75, 0}

FmtStartPoint ==
  [x |-> 100, y |-> 0, z |-> 0, e_offset |-> 0, is_extruder_relative |-> TRUE,
   f |-> 180000, distance |-> 50]

FmtEndPoints ==
  { [x |-> x, y |-> y, z |-> z, e_offset |-> e, is_extruder_relative |-> r,
     f |-> f, distance |-> 200]
    : x \in FmtXs, y \in FmtYs, z \in FmtZs, e \in FmtEOffsets, r \in BOOLEAN,
      f \in FmtFs }

FmtArcs ==
  { [start_point |-> FmtStartPoint, end_point |-> q, i |-> i, j |-> j,
     radius |-> 500, length |-> 300, angle_radians |-> a]
    : q \in FmtEndPoints, i \in FmtIs, j \in FmtJs, a \in FmtAngles }

FmtSplines ==
  { [start_point |-> FmtStartPoint, end_point |-> q, length |-> 300] : q \in FmtEndPoints }

InitFmt ==
  /\ shape \in {"arc", "spline"}
  /\ ctor = "param"
  /\ requested_max_radius_mm = IF shape = "arc" THEN DEFAULT_MAX_RADIUS_MM ELSE 0
  /\ max_radius_mm_ =
       IF shape = "arc" THEN segmented_arc_max_radius(requested_max_radius_mm) ELSE 0
  /\ allow_3d_shapes_ \in BOOLEAN
  /\ min_segments_ = 2
  /\ max_segments_ = MaxSegments
  /\ mm_per_segment_ = 0
  /\ max_gcode_length_ = 0
  /\ xyz_precision_ \in FmtPrecisions
  /\ e_precision_ \in FmtEPrecisions
  /\ e_relative_ \in FmtERelatives
  /\ current_arc_ \in (IF shape = "arc" THEN FmtArcs ELSE {DefaultArc})
  /\ current_spline_ \in (IF shape = "spline" THEN FmtSplines ELSE {DefaultSpline})
  /\ points_ =
       IF shape = "arc"
       THEN <<current_arc_.start_point, current_arc_.end_point>>
       ELSE <<current_spline_.start_point, current_spline_.end_point>>
  /\ original_shape_length_ = points_[1].distance + points_[2].distance
  /\ is_shape_ = TRUE
  /\ num_gcode_length_exceptions_ = 0
  /\ num_firmware_compensations_ = 0
  /\ last = NoCall
  /\ gcode = <<>>
  /\ gcode_length = 0

\* segmented_arc::get_gcode() and segmented_arc::get_gcode_length()
GetGcodeArc ==
  /\ shape = "arc"
  /\ is_shape
  /\ last.call = "none"
  /\ gcode' = arc_get_gcode(current_arc_)
  /\ gcode_length' = arc_get_gcode_length(current_arc_)
  /\ last' = [last EXCEPT !.call = "get_gcode"]
  /\ UNCHANGED <<config_vars, points_, original_shape_length_, current_arc_,
                 current_spline_, is_shape_, num_gcode_length_exceptions_,
                 num_firmware_compensations_>>

\* segmented_spline::get_gcode() and segmented_spline::get_gcode_length()
GetGcodeSpline ==
  /\ shape = "spline"
  /\ is_shape
  /\ last.call = "none"
  /\ gcode' = spline_get_gcode(current_spline_)
  /\ gcode_length' = spline_get_gcode_length(current_spline_)
  /\ last' = [last EXCEPT !.call = "get_gcode"]
  /\ UNCHANGED <<config_vars, points_, original_shape_length_, current_arc_,
                 current_spline_, is_shape_, num_gcode_length_exceptions_,
                 num_firmware_compensations_>>

NextFmt == GetGcodeArc \/ GetGcodeSpline

SpecFmt == InitFmt /\ [][NextFmt]_vars

-----------------------------------------------------------------------------
(* Properties *)

Called == last.call = "try_add_point"

\* the predicted emitted length of curve c for the accumulator's class
predicted_length(c) ==
  IF shape = "arc" THEN arc_get_gcode_length(c) ELSE spline_get_gcode_length(c)

\* the fits the accumulator's solver can produce for the buffer pts
Fits(pts) == IF shape = "arc" THEN ArcFits(pts) ELSE SplineFits(pts)

\* I and J of arc a both within the xyz tolerance of zero
CenterOffsetZero(a) ==
  is_zero(get_i(a), get_xyz_tolerance) /\ is_zero(get_j(a), get_xyz_tolerance)

\* C1 (as claimed): whenever try_add_point(p) returns false, the point buffer, the
\* original shape length and the curve model (current_arc_ / current_spline_) are
\* what they were before the call, whether the solver failed or a filter rejected,
\* and whatever the solver left in the curve model.
C1_Rollback ==
  [][ (last'.call = "try_add_point" /\ ~last'.ret) =>
        /\ points_' = points_
        /\ original_shape_length_' = original_shape_length_
        /\ current_arc_' = current_arc_
        /\ current_spline_' = current_spline_ ]_vars

\* C2 (as claimed): for every arc shape state and every configured precision,
\* get_gcode_length() is the length of the string get_gcode() returns.
C2_ArcLengthExact ==
  (last.call = "get_gcode" /\ shape = "arc") => gcode_length = Len(gcode)

\* C3 (as claimed): for every spline shape state, get_gcode_length() is the length
\* of the string get_gcode() returns.
C3_SplineLengthExact ==
  (last.call = "get_gcode" /\ shape = "spline") => gcode_length = Len(gcode)

\* C4: once is_shape() is true it stays true, whatever calls follow.
C4_MonotonicAcceptance == [][ is_shape => is_shape' ]_vars

\* C4 witness: a call was rejected by a filter while the accumulator was a shape
C4_Witness == Called /\ last.fit /\ last.solved /\ ~last.ret /\ is_shape

\* C5 (as claimed): an arc with I and J both within the xyz tolerance of zero is
\* never accepted, so in every state with is_shape() true the current arc does not
\* have both I and J within tolerance of zero.
C5_DegenerateRejection ==
  (shape = "arc" /\ is_shape) => ~CenterOffsetZero(current_arc_)

\* C6: get_max_radius() is at most DEFAULT_MAX_RADIUS_MM for either constructor and
\* any requested value, is the requested value when that is within the ceiling,
\* and no call changes it.
C6_RadiusCeiling ==
  /\ [](shape = "arc" =>
          /\ get_max_radius <= DEFAULT_MAX_RADIUS_MM
          /\ (requested_max_radius_mm <= DEFAULT_MAX_RADIUS_MM
                => get_max_radius = requested_max_radius_mm))
  /\ [][ max_radius_mm_' = max_radius_mm_ ]_vars

\* C6 witness: an arc accumulator built with a radius above the ceiling has taken a point
C6_Witness ==
  /\ shape = "arc"
  /\ ctor = "param"
  /\ requested_max_radius_mm > DEFAULT_MAX_RADIUS_MM
  /\ Called /\ last.fit /\ last.ret

\* C7: with a maximum command length configured, a candidate the solver succeeds on
\* and whose predicted length exceeds the maximum is refused and counted once in
\* num_gcode_length_exceptions_; with the maximum 0, the counter never changes.
C7_LengthCap ==
  [][ last'.call = "try_add_point" =>
        /\ (/\ max_gcode_length_ > 0
            /\ last'.solved
            /\ predicted_length(last'.target) > max_gcode_length_)
           => (/\ ~last'.ret
               /\ num_gcode_length_exceptions_' = num_gcode_length_exceptions_ + 1)
        /\ max_gcode_length_ = 0
           => num_gcode_length_exceptions_' = num_gcode_length_exceptions_ ]_vars

\* C7 witness: a solved candidate was refused for its length and counted
C7_Witness ==
  /\ Called /\ last.solved /\ ~last.ret
  /\ max_gcode_length_ > 0
  /\ predicted_length(last.target) > max_gcode_length_
  /\ num_gcode_length_exceptions_ = 1

\* both quotients of the firmware compensation are below min_segments for arc a
\* once the shape length is len
BothQuotientsBelow(a, len) ==
  /\ min_segments_ > 0
  /\ floor_div(circumference_of(a.radius), min_segments_ * Scale) < min_segments_
  /\ floor_div(circumference_of(a.radius), len) < min_segments_

\* C8 (as claimed): a solved arc candidate with both quotients below min_segments is
\* refused, counted in num_firmware_compensations_, and leaves the previous arc,
\* buffer and length; otherwise the counter is unchanged.
C8_FirmwareCompensationAsClaimed ==
  [][ (last'.call = "try_add_point" /\ shape = "arc" /\ last'.solved) =>
        IF BothQuotientsBelow(last'.target, original_shape_length_ + last'.p.distance)
        THEN /\ ~last'.ret
             /\ num_firmware_compensations_' = num_firmware_compensations_ + 1
             /\ current_arc_' = current_arc_
             /\ points_' = points_
             /\ original_shape_length_' = original_shape_length_
        ELSE num_firmware_compensations_' = num_firmware_compensations_ ]_vars

\* C8 (amended): the above when min_segments > 0 and mm_per_segment > 0; with
\* either of them 0 the filter is skipped and the counter is unchanged.
C8_FirmwareCompensation ==
  [][ (last'.call = "try_add_point" /\ shape = "arc" /\ last'.solved) =>
        IF /\ mm_per_segment_ > 0
           /\ BothQuotientsBelow(last'.target, original_shape_length_ + last'.p.distance)
        THEN /\ ~last'.ret
             /\ num_firmware_compensations_' = num_firmware_compensations_ + 1
             /\ current_arc_' = current_arc_
             /\ points_' = points_
             /\ original_shape_length_' = original_shape_length_
        ELSE num_firmware_compensations_' = num_firmware_compensations_ ]_vars

\* C8 witness: a solved candidate was refused by the firmware compensation while
\* the accumulator held an accepted arc, which it still holds
C8_Witness ==
  /\ shape = "arc" /\ Called /\ last.solved /\ ~last.ret
  /\ num_firmware_compensations_ = 1
  /\ is_shape
  /\ current_arc_ \in ArcFits(points_)
  /\ last.target # current_arc_

C10_Commit ==
  [][ (last'.call = "try_add_point" /\ last'.fit /\ last'.ret) =>
        /\ points_' = Append(points_, last'.p)
        /\ original_shape_length_' = original_shape_length_ + last'.p.distance
        /\ last'.solved
        /\ current_curve' = last'.target
        /\ current_curve' \in Fits(points_')
        /\ is_shape' ]_vars

\* C10 witness: a second fit was accepted on top of an accepted shape
C10_Witness ==
  /\ Called /\ last.fit /\ last.ret /\ is_shape
  /\ Len(points_) = 3
  /\ min_segments_ = 2
  /\ last.p = points_[3]

\* the parameter letters of a command, in the order they appear
Terms(g) == SelectSeq(g, LAMBDA c : c \in {"X", "Y", "Z", "I", "J", "E", "F"})

\* the end point's z is not within the xyz tolerance of the start point's z
ZDiffers(c) == ~(Abs(c.end_point.z - c.start_point.z) < Scale \div Pow10(xyz_precision_))

\* the end feed rate differs from the start feed rate and is at least 1
FeedChanges(c) == c.end_point.f # c.start_point.f /\ c.end_point.f >= Scale

\* C11: get_gcode() of an arc starts with G2 exactly when the sweep angle is
\* negative and with G3 exactly when it is zero or positive; the keyword is two
\* characters, followed by the space of the first term.
C11_ArcKeyword ==
  (last.call = "get_gcode" /\ shape = "arc") =>
    /\ Len(gcode) > 3
    /\ gcode[1] = "G"
    /\ gcode[2] \in {"2", "3"}
    /\ (gcode[2] = "2" <=> current_arc_.angle_radians < 0)
    /\ (gcode[2] = "3" <=> current_arc_.angle_radians >= 0)
    /\ gcode[3] = " " /\ gcode[4] = "X"

\* C11 witness: the command of an arc with a zero sweep angle starts with G3
C11_Witness ==
  /\ last.call = "get_gcode" /\ shape = "arc"
  /\ current_arc_.angle_radians = 0
  /\ SubSeq(gcode, 1, 2) = <<"G", "3">>

Flat(s) == [s EXCEPT !.end_point.z = s.start_point.z]

\* C13 (as claimed): get_gcode() of a spline emits Z only if 3-axis shapes are
\* allowed and the end z is not within tolerance of the start z, never with 3-axis
\* shapes disabled, and get_gcode_length() counts a Z term under that condition.
C13_SplineZTerm ==
  (last.call = "get_gcode" /\ shape = "spline") =>
    LET z_term == allow_3d_shapes_ /\ ZDiffers(current_spline_)
    IN  /\ (\E k \in 1..Len(gcode) : gcode[k] = "Z") <=> z_term
        /\ (gcode_length # spline_get_gcode_length(Flat(current_spline_))) <=> z_term

RECURSIVE SumDistances(_)
\* the sum of the distance fields of the points of pts
SumDistances(pts) ==
  IF pts = <<>> THEN 0 ELSE SumDistances(pop_back(pts)) + pts[Len(pts)].distance

\* C14: in every state reached by try_add_point calls, accepted or rejected, the
\* running original shape length is the sum of the distances of the buffered points.
C14_OriginalLength == original_shape_length_ = SumDistances(points_)

\* C14 witness: a point was rejected after two were taken, and the length is the
\* sum over the two that stayed
C14_Witness ==
  /\ Called /\ last.fit /\ ~last.ret
  /\ Len(points_) = 2
  /\ original_shape_length_ = points_[1].distance + points_[2].distance
  /\ original_shape_length_ > 0

C16_CapInvariant ==
  (max_gcode_length_ > 0 /\ is_shape) =>
    predicted_length(current_curve) <= max_gcode_length_

\* C17 (as claimed): a candidate whose fitted length is below the xyz tolerance is
\* never accepted and its rejection alone moves neither counter, so whenever
\* is_shape() is true get_length() is at least the xyz tolerance.
C17_ZeroLength ==
  /\ [][ (last'.call = "try_add_point" /\ last'.solved
           /\ last'.target.length < get_xyz_tolerance) => ~last'.ret ]_vars
  /\ [][ (/\ last'.call = "try_add_point" /\ last'.solved
          /\ last'.target.length < get_xyz_tolerance
          /\ ~(max_gcode_length_ > 0 /\ predicted_length(last'.target) > max_gcode_length_)
          /\ ~(/\ shape = "arc" /\ mm_per_segment_ > 0
               /\ BothQuotientsBelow(last'.target,
                                     original_shape_length_ + last'.p.distance))) =>
         UNCHANGED <<num_gcode_length_exceptions_, num_firmware_compensations_>> ]_vars
  /\ [](is_shape => current_curve.length >= get_xyz_tolerance)

\* C18: whenever is_shape() is true the buffer holds at least min_segments points;
\* the flag is first set by an accepted fit made with at least min_segments - 1
\* points already buffered.
C18_ShapeHasPoints ==
  /\ [](is_shape => Len(points_) >= min_segments_)
  /\ [][ (~is_shape /\ is_shape') =>
           /\ last'.call = "try_add_point" /\ last'.fit /\ last'.ret
           /\ Len(points_) >= min_segments_ - 1
           /\ points_' = Append(points_, last'.p) ]_vars

\* C18 witness: the first accepted fit of an accumulator with min_segments = 3
C18_Witness ==
  /\ Called /\ last.fit /\ last.ret /\ is_shape
  /\ min_segments_ = 3
  /\ Len(points_) = 3

\* the length filter rejects candidate c
TooLong(c) == max_gcode_length_ > 0 /\ predicted_length(c) > max_gcode_length_

\* the firmware compensation rejects arc candidate c offered with point p
Compensated(c, p) ==
  /\ shape = "arc"
  /\ mm_per_segment_ > 0
  /\ BothQuotientsBelow(c, original_shape_length_ + p.distance)

\* the degeneracy filter would reject candidate c
Degenerate(c) ==
  \/ shape = "arc" /\ CenterOffsetZero(c)
  \/ c.length < get_xyz_tolerance

\* C19: neither counter ever decreases, each grows by at most one per call, a call
\* that returns true or is rejected by the solver or only by the degeneracy /
\* zero-length filter leaves both unchanged, and a spline accumulator never changes
\* the firmware-compensation counter.
C19_Counters ==
  [][ /\ num_gcode_length_exceptions_' \in
          {num_gcode_length_exceptions_, num_gcode_length_exceptions_ + 1}
      /\ num_firmware_compensations_' \in
          {num_firmware_compensations_, num_firmware_compensations_ + 1}
      /\ (\/ last'.ret
          \/ ~last'.solved
          \/ ~TooLong(last'.target) /\ ~Compensated(last'.target, last'.p))
         => UNCHANGED <<num_gcode_length_exceptions_, num_firmware_compensations_>>
      /\ shape = "spline" => UNCHANGED num_firmware_compensations_ ]_vars

\* C19 witness: a spline accumulator holding a shape rejected, by the zero-length
\* filter alone, a candidate its solver accepted, and counted nothing
C19_Witness ==
  /\ shape = "spline" /\ is_shape /\ max_gcode_length_ > 0
  /\ Called /\ last.solved /\ ~last.ret
  /\ ~TooLong(last.target)
  /\ Degenerate(last.target)
  /\ num_gcode_length_exceptions_ = 0

\* C20: for an arc candidate the solver accepted, the length filter counts when the
\* predicted length is over the maximum, the firmware compensation counts when it
\* is enabled (min_segments > 0 and mm_per_segment > 0) and both quotients are
\* below min_segments, also for a candidate the length filter already rejected, and
\* the candidate is accepted exactly when neither filter nor the degeneracy filter
\* rejects it.
C20_FilterOrder ==
  [][ (last'.call = "try_add_point" /\ shape = "arc" /\ last'.solved) =>
        /\ num_gcode_length_exceptions_' =
             num_gcode_length_exceptions_ + Bit(TooLong(last'.target))
        /\ num_firmware_compensations_' =
             num_firmware_compensations_ + Bit(Compensated(last'.target, last'.p))
        /\ last'.ret <=> ~(\/ TooLong(last'.target)
                           \/ Compensated(last'.target, last'.p)
                           \/ Degenerate(last'.target)) ]_vars

\* C20 witness: one rejected call was counted by both filters
C20_Witness ==
  /\ shape = "arc" /\ Called /\ last.solved /\ ~last.ret
  /\ TooLong(last.target) /\ Compensated(last.target, last.p)
  /\ num_gcode_length_exceptions_ = 1
  /\ num_firmware_compensations_ = 1

====
